---- MODULE Spec2Model ----
(***************************************************************************)
(* The QUBO conversion pipeline exercised by the tutorial notebook         *)
(* docs/tutorials/advanced/aqua/optimization/1_optimization_problems.ipynb *)
(*                                                                         *)
(* The notebook builds OptimizationProblem models by hand, hands them to   *)
(* the converters' encode methods, prints the results, solves the          *)
(* converted problem with CplexOptimizer and decodes the answer.  The      *)
(* models built in the cells and the printed outputs are transcribed from  *)
(* the notebook.  The converters themselves are not part of the notebook;  *)
(* on inputs other than the ones whose output the notebook records they    *)
(* are modelled from the specification (sections 4.1 - 4.5).               *)
(***************************************************************************)
EXTENDS Integers, Sequences, FiniteSets, TLC

VARIABLES
    op,             \* the model bound to the name op
    new_op,         \* the model bound to the name new_op
    result,         \* the answer bound to the name result
    ineq2eq_conv,   \* the converter instances: None, or what the
    int2bin_conv,   \*   instance keeps from its encode
    penilize_conv,
    qubo_conv,
    decoded_from,   \* history: the vector the last decode was given
    phase,          \* history: "convert", "solved", "sampled", "decoded"
    last,           \* history: the last call
    error,          \* the exception the last cell raised
    names,          \* the names the import cell has bound in the kernel
    cell,           \* a run of the document from top to bottom: the index
                    \*   of the statement to run next; 0 in a session that
                    \*   runs cells one at a time
    decodes         \* history: the decode calls made on each instance

vars == <<op, new_op, result, ineq2eq_conv, int2bin_conv, penilize_conv,
          qubo_conv, decoded_from, phase, last, error, names, cell, decodes>>

(***************************************************************************)
(* Bounds of the explored family of models.                                *)
(***************************************************************************)
MaxU == 3

MaxRhs == 2

SmallPenalty == 3

\* the decode calls followed on one converter instance
MaxDecodes == 2

(***************************************************************************)
(* Program constants.                                                      *)
(***************************************************************************)
\* "M is a large number as penalty factor. By default it's 1e5."
DefaultPenalty == 100000

\* the upper bound written_as_string prints as "Inf"
Inf == 1000000000

\* Python's None for a name that holds no object yet
None == [none |-> TRUE]

NoVector == <<>>

NoError == "NoError"

(***************************************************************************)
(* Arithmetic helpers.                                                     *)
(***************************************************************************)
RECURSIVE SumTo(_, _)
SumTo(s, n) == IF n = 0 THEN 0 ELSE s[n] + SumTo(s, n - 1)

Sum(s) == SumTo(s, Len(s))

Dot(a, x) == Sum([i \in 1..Len(a) |-> a[i] * x[i]])

RECURSIVE Pow2(_)
Pow2(n) == IF n = 0 THEN 1 ELSE 2 * Pow2(n - 1)

\* ceil(log2(n)) for n >= 1: the least k with 2^k >= n
RECURSIVE CeilLog2From(_, _)
CeilLog2From(n, k) == IF Pow2(k) >= n THEN k ELSE CeilLog2From(n, k + 1)

CeilLog2(n) == CeilLog2From(n, 0)

RECURSIVE Concat(_)
Concat(ss) == IF ss = <<>> THEN <<>> ELSE Head(ss) \o Concat(Tail(ss))

SetMax(S) == CHOOSE m \in S : \A e \in S : e <= m

SetMin(S) == CHOOSE m \in S : \A e \in S : m <= e

ZeroVector(n) == [i \in 1..n |-> 0]

ZeroMatrix(n) == [i \in 1..n |-> [j \in 1..n |-> 0]]

(***************************************************************************)
(* The model container (OptimizationProblem).                              *)
(*   vars  : sequence of [name, kind ("B" | "I"), lb, ub]                  *)
(*   sense : "max" | "min"            (objective.set_sense(-1) is max)     *)
(*   lin   : linear objective coefficient per variable                     *)
(*   quad  : upper-triangular matrix of the coefficients printed inside    *)
(*           "[ ... ] / 2": quad[i][i] of x_i^2, quad[i][j] of x_i*x_j     *)
(*   const : objective offset                                              *)
(*   cons  : sequence of [name, coef, op ("L" | "E" | "G"), rhs]           *)
(***************************************************************************)
Variable(n, k, l, u) == [name |-> n, kind |-> k, lb |-> l, ub |-> u]

Constraint(n, a, o, b) == [name |-> n, coef |-> a, op |-> o, rhs |-> b]

LinearModel(vs, s, c, cs) ==
    [vars |-> vs, sense |-> s, lin |-> c, quad |-> ZeroMatrix(Len(vs)),
     const |-> 0, cons |-> cs]

NumVars(m) == Len(m.vars)

\* twice the quadratic part of the objective at x (the bracket of the LP dump)
QuadBracket(m, x) ==
    Sum([i \in 1..NumVars(m) |->
           Sum([j \in 1..NumVars(m) |-> m.quad[i][j] * x[i] * x[j]])])

Objective(m, x) == Dot(m.lin, x) + (QuadBracket(m, x) \div 2) + m.const

ConstraintHolds(c, x) ==
    CASE c.op = "L" -> Dot(c.coef, x) <= c.rhs
      [] c.op = "E" -> Dot(c.coef, x) = c.rhs
      [] c.op = "G" -> Dot(c.coef, x) >= c.rhs

Feasible(m, x) == \A i \in 1..Len(m.cons) : ConstraintHolds(m.cons[i], x)

\* a binary variable takes 0 or 1 whatever its declared bounds
Domain(v) == IF v.kind = "B" THEN 0..1 ELSE v.lb..v.ub

Assignments(m) ==
    {x \in [1..NumVars(m) -> 0..SetMax({1} \cup {IF m.vars[i].kind = "B" THEN 1 ELSE m.vars[i].ub : i \in 1..NumVars(m)})] :
        \A i \in 1..NumVars(m) : x[i] \in Domain(m.vars[i])}

Better(s, a, b) == IF s = "max" THEN a > b ELSE a < b

(***************************************************************************)
(* The models the notebook builds by hand and the outputs it records.      *)
(***************************************************************************)
\* the toy model with the right-hand side 6 in place of 5
Cell4ModelLooser ==
    [vars |-> <<[name |-> "x", kind |-> "B", lb |-> 0, ub |-> 1],
                [name |-> "y", kind |-> "B", lb |-> 0, ub |-> 1],
                [name |-> "z", kind |-> "I", lb |-> 0, ub |-> 7]>>,
     sense |-> "max", lin |-> <<2, 1, 1>>,
     quad |-> <<<<0, 0, 0>>, <<0, 0, 0>>, <<0, 0, 0>>>>, const |-> 0,
     cons |-> <<[name |-> "xyz", coef |-> <<1, 1, 1>>, op |-> "L", rhs |-> 6]>>]

\* op of the first code cell: maximize 2x + y + z  s.t.  x + y + z <= 5
Cell4Model ==
    LinearModel(<<Variable("x", "B", 0, 1), Variable("y", "B", 0, 1),
                  Variable("z", "I", 0, 7)>>,
                "max", <<2, 1, 1>>,
                <<Constraint("xyz", <<1, 1, 1>>, "L", 5)>>)

\* an output that leaves the inequality in place and adds no slack variable
Cell6OutputNoSlack ==
    LinearModel(<<Variable("x", "B", 0, 1), Variable("y", "B", 0, Inf),
                  Variable("z", "I", 0, 7)>>,
                "max", <<2, 1, 1>>,
                <<Constraint("xyz", <<1, 1, 1>>, "L", 5)>>)

\* printed output of ineq2eq_conv.encode(op)
Cell6Output ==
    LinearModel(<<Variable("x", "B", 0, 1), Variable("y", "B", 0, Inf),
                  Variable("z", "I", 0, 7),
                  Variable("xyz@int_slack", "I", 0, 5)>>,
                "max", <<2, 1, 1, 0>>,
                <<Constraint("xyz", <<1, 1, 1, 1>>, "E", 5)>>)

\* op built as the input of IntegerToBinaryConverter
Cell10Model ==
    LinearModel(<<Variable("x", "B", 0, 1), Variable("y", "B", 0, 1),
                  Variable("z", "I", 0, 7),
                  Variable("xyz@int_slack", "I", 0, 5)>>,
                "max", <<2, 1, 1, 0>>,
                <<Constraint("xyz", <<1, 1, 1, 1>>, "E", 5)>>)

\* an output whose objective weighs z@2 by 3 in place of 4
Cell12OutputWrongWeight ==
    LinearModel(<<Variable("x", "B", 0, 1), Variable("y", "B", 0, 1),
                  Variable("z@0", "B", 0, 1), Variable("z@1", "B", 0, Inf),
                  Variable("z@2", "B", 0, Inf),
                  Variable("xyz@int_slack@0", "B", 0, Inf),
                  Variable("xyz@int_slack@1", "B", 0, Inf),
                  Variable("xyz@int_slack@2", "B", 0, Inf)>>,
                "max", <<2, 1, 1, 2, 3, 0, 0, 0>>,
                <<Constraint("xyz", <<1, 1, 1, 2, 4, 1, 2, 2>>, "E", 5)>>)

\* printed output of int2bin_conv.encode(op)
Cell12Output ==
    LinearModel(<<Variable("x", "B", 0, 1), Variable("y", "B", 0, 1),
                  Variable("z@0", "B", 0, 1), Variable("z@1", "B", 0, Inf),
                  Variable("z@2", "B", 0, Inf),
                  Variable("xyz@int_slack@0", "B", 0, Inf),
                  Variable("xyz@int_slack@1", "B", 0, Inf),
                  Variable("xyz@int_slack@2", "B", 0, Inf)>>,
                "max", <<2, 1, 1, 2, 4, 0, 0, 0>>,
                <<Constraint("xyz", <<1, 1, 1, 2, 4, 1, 2, 2>>, "E", 5)>>)

\* the slack variable encoded with plain powers of two
Cell12CoefficientsPowersOfTwo == <<<<1>>, <<1>>, <<1, 2, 4>>, <<1, 2, 4>>>>

\* "z is replaced with z@0, z@1 and z@2 with coefficients 1, 2 and 4 ...
\*  xyz@int_slack@0, @1 and @2 with coefficients 1, 2 and 2"
Cell12Coefficients == <<<<1>>, <<1>>, <<1, 2, 4>>, <<1, 2, 2>>>>

BinaryNames8 ==
    <<"x", "y", "z@0", "z@1", "z@2", "xyz@int_slack@0", "xyz@int_slack@1",
      "xyz@int_slack@2">>

\* op built as the input of PenalizeLinearEqualityConstraints
Cell16Model ==
    LinearModel([i \in 1..8 |-> Variable(BinaryNames8[i], "B", 0, 1)],
                "max", <<2, 1, 1, 2, 4, 0, 0, 0>>,
                <<Constraint("xyz", <<1, 1, 1, 2, 4, 1, 2, 2>>, "E", 5)>>)

\* a linear part that misses the penalty's share of x
PrintedLinearNoShare ==
    <<2, 1000001, 1000001, 2000002, 4000004, 1000000, 2000000, 2000000>>

\* the linear part of the objective printed by penilize_conv.encode(op)
PrintedLinear ==
    <<1000002, 1000001, 1000001, 2000002, 4000004, 1000000, 2000000, 2000000>>

\* a quadratic part whose z@2^2 term is ten times too small
PrintedQuadraticWeak ==
    << <<-200000, -400000, -400000, -800000, -1600000, -400000, -800000, -800000>>,
       <<0, -200000, -400000, -800000, -1600000, -400000, -800000, -800000>>,
       <<0, 0, -200000, -800000, -1600000, -400000, -800000, -800000>>,
       <<0, 0, 0, -800000, -3200000, -800000, -1600000, -1600000>>,
       <<0, 0, 0, 0, -320000, -1600000, -3200000, -3200000>>,
       <<0, 0, 0, 0, 0, -200000, -800000, -800000>>,
       <<0, 0, 0, 0, 0, 0, -800000, -1600000>>,
       <<0, 0, 0, 0, 0, 0, 0, -800000>> >>

\* the terms printed inside "[ ... ] / 2"
PrintedQuadratic ==
    << <<-200000, -400000, -400000, -800000, -1600000, -400000, -800000, -800000>>,
       <<0, -200000, -400000, -800000, -1600000, -400000, -800000, -800000>>,
       <<0, 0, -200000, -800000, -1600000, -400000, -800000, -800000>>,
       <<0, 0, 0, -800000, -3200000, -800000, -1600000, -1600000>>,
       <<0, 0, 0, 0, -3200000, -1600000, -3200000, -3200000>>,
       <<0, 0, 0, 0, 0, -200000, -800000, -800000>>,
       <<0, 0, 0, 0, 0, 0, -800000, -1600000>>,
       <<0, 0, 0, 0, 0, 0, 0, -800000>> >>

\* a constant that is not M * 5^2
PrintedConstantOff == 0 - 2400000

\* the constant of the printed objective
PrintedConstant == 0 - 2500000

\* printed output of penilize_conv.encode(op)
Cell18Output ==
    [vars |-> [i \in 1..8 |-> Variable(BinaryNames8[i], "B", 0, 1)],
     sense |-> "max", lin |-> PrintedLinear, quad |-> PrintedQuadratic,
     const |-> PrintedConstant, cons |-> <<>>]

\* op built as the input of OptimizationProblemToQubo
Cell28Model ==
    LinearModel(<<Variable("x", "B", 0, 1), Variable("y", "B", 0, 1),
                  Variable("z", "I", 0, 7),
                  Variable("xyz@int_slack", "I", 0, 5)>>,
                "max", <<2, 1, 1, 0>>,
                <<Constraint("xyz", <<1, 1, 1, 1>>, "E", 5)>>)

\* an output that keeps the equality constraint and penalizes nothing
Cell30OutputUnpenalized ==
    LinearModel([i \in 1..8 |-> Variable(BinaryNames8[i], "B", 0, 1)],
                "max", <<2, 1, 1, 2, 4, 0, 0, 0>>,
                <<Constraint("xyz", <<1, 1, 1, 2, 4, 1, 2, 2>>, "E", 5)>>)

\* printed output of qubo_conv.encode(op)
Cell30Output ==
    [vars |-> [i \in 1..8 |-> Variable(BinaryNames8[i], "B", 0, 1)],
     sense |-> "max",
     lin |-> <<1000002, 1000001, 1000001, 2000002, 4000004, 1000000,
               2000000, 2000000>>,
     quad |->
       << <<-200000, -400000, -400000, -800000, -1600000, -400000, -800000, -800000>>,
          <<0, -200000, -400000, -800000, -1600000, -400000, -800000, -800000>>,
          <<0, 0, -200000, -800000, -1600000, -400000, -800000, -800000>>,
          <<0, 0, 0, -800000, -3200000, -800000, -1600000, -1600000>>,
          <<0, 0, 0, 0, -3200000, -1600000, -3200000, -3200000>>,
          <<0, 0, 0, 0, 0, -200000, -800000, -800000>>,
          <<0, 0, 0, 0, 0, 0, -800000, -1600000>>,
          <<0, 0, 0, 0, 0, 0, 0, -800000>> >>,
     const |-> 0 - 2500000, cons |-> <<>>]

\* printed output of int2bin_conv.decode(result): ([1,1,3,0] / 6.0)
Cell24Output == [x |-> <<1, 1, 3, 0>>, fval |-> 6]

\* printed output of qubo_conv.decode(result): ([1,1,3,0] / 6.0)
Cell32Output == [x |-> <<1, 1, 3, 0>>, fval |-> 6]

(***************************************************************************)
(* InequalityToEqualityConverter (specification 4.1).                      *)
(***************************************************************************)
IsInequality(c) == c.op \in {"L", "G"}

InequalityIndices(m) == {i \in 1..Len(m.cons) : IsInequality(m.cons[i])}

\* the number of inequalities among the first i constraints
SlackRank(m, i) == Cardinality({j \in InequalityIndices(m) : j <= i})

\* least and greatest value of sum(a_i x_i) over the variables' declared bounds
MinLhs(m, c) ==
    Sum([i \in 1..NumVars(m) |->
           IF c.coef[i] >= 0 THEN c.coef[i] * m.vars[i].lb
                             ELSE c.coef[i] * m.vars[i].ub])

MaxLhs(m, c) ==
    Sum([i \in 1..NumVars(m) |->
           IF c.coef[i] >= 0 THEN c.coef[i] * m.vars[i].ub
                             ELSE c.coef[i] * m.vars[i].lb])

SlackUpperBound(m, c) ==
    IF c.op = "L" THEN c.rhs - MinLhs(m, c) ELSE MaxLhs(m, c) - c.rhs

SlackSignAlwaysPlus(c) == 1

SlackSign(c) == IF c.op = "L" THEN 1 ELSE 0 - 1

SlackVariable(m, c) ==
    Variable(c.name \o "@int_slack", "I", 0, SlackUpperBound(m, c))

\* the bounds of an inequality's variables cannot be sliced, or the slack
\* would have lower bound > upper bound
Ineq2EqInvalidBounds(m) ==
    \E i \in InequalityIndices(m) :
        \/ \E j \in 1..NumVars(m) :
              m.cons[i].coef[j] # 0 /\ m.vars[j].ub >= Inf
        \/ SlackUpperBound(m, m.cons[i]) < 0

InequalityToEqualityEncode(m) ==
    LET n == NumVars(m)
        k == Cardinality(InequalityIndices(m))
        ineqs == [r \in 1..k |->
                    CHOOSE i \in InequalityIndices(m) : SlackRank(m, i) = r]
    IN  [vars  |-> m.vars \o [r \in 1..k |-> SlackVariable(m, m.cons[ineqs[r]])],
         sense |-> m.sense,
         lin   |-> m.lin \o ZeroVector(k),
         quad  |-> [i \in 1..(n + k) |-> [j \in 1..(n + k) |->
                      IF i <= n /\ j <= n THEN m.quad[i][j] ELSE 0]],
         const |-> m.const,
         cons  |-> [i \in 1..Len(m.cons) |->
                      Constraint(m.cons[i].name,
                                 m.cons[i].coef \o
                                   [r \in 1..k |->
                                      IF ineqs[r] = i THEN SlackSign(m.cons[i])
                                                      ELSE 0],
                                 "E", m.cons[i].rhs)]]

(***************************************************************************)
(* IntegerToBinaryConverter (specification 4.2, 4.5).                      *)
(***************************************************************************)
\* bounded-coefficient encoding of [0, U]:
\* k = ceil(log2(U+1)) coefficients 1, 2, 4, ..., 2^(k-2), U+1-2^(k-1)
BoundedCoefficients(U) ==
    LET k == CeilLog2(U + 1)
    IN  [i \in 1..k |-> IF i < k THEN Pow2(i - 1) ELSE U + 1 - Pow2(k - 1)]

\* the coefficient list stored per original variable
Coefficients(m) ==
    [i \in 1..NumVars(m) |->
        IF m.vars[i].kind = "I" THEN BoundedCoefficients(m.vars[i].ub)
                                ELSE <<1>>]

\* per new variable: the original variable it replaces, and its weight
Owners(coefs) ==
    Concat([i \in 1..Len(coefs) |-> [b \in 1..Len(coefs[i]) |-> i]])

Weights(coefs) == Concat(coefs)

\* a replacement that renames the binary variables as well
ReplacementVariablesRenameAll(v, c) ==
    [b \in 1..Len(c) |-> Variable(v.name \o "@" \o ToString(b - 1), "B", 0, 1)]

\* an integer variable gives way to one binary per coefficient; a binary
\* variable is carried over as it is
ReplacementVariables(v, c) ==
    IF v.kind = "I"
    THEN [b \in 1..Len(c) |-> Variable(v.name \o "@" \o ToString(b - 1), "B", 0, 1)]
    ELSE <<v>>

\* replace every variable of a linear expression by its weighted sum
SubstituteLinear(a, own, wgt) ==
    [p \in 1..Len(own) |-> a[own[p]] * wgt[p]]

\* the same in the upper-triangular quadratic form: x_i^2 gives w_p^2 y_p^2
\* and 2 w_p w_q y_p y_q, x_i x_j gives w_p w_q y_p y_q
SubstituteQuadratic(Q, own, wgt) ==
    [p \in 1..Len(own) |-> [q \in 1..Len(own) |->
        IF p > q THEN 0
        ELSE IF p < q /\ own[p] = own[q]
             THEN 2 * Q[own[p]][own[q]] * wgt[p] * wgt[q]
             ELSE Q[own[p]][own[q]] * wgt[p] * wgt[q]]]

\* an integer variable must have bounds [0, U] with U finite
Int2BinInvalidBounds(m) ==
    \E i \in 1..NumVars(m) :
        /\ m.vars[i].kind = "I"
        /\ (m.vars[i].lb # 0 \/ m.vars[i].ub < 0 \/ m.vars[i].ub >= Inf)

IntegerToBinaryEncode(m) ==
    LET coefs == Coefficients(m)
        own == Owners(coefs)
        wgt == Weights(coefs)
    IN  [vars  |-> Concat([i \in 1..NumVars(m) |->
                             ReplacementVariables(m.vars[i], coefs[i])]),
         sense |-> m.sense,
         lin   |-> SubstituteLinear(m.lin, own, wgt),
         quad  |-> SubstituteQuadratic(m.quad, own, wgt),
         const |-> m.const,
         cons  |-> [c \in 1..Len(m.cons) |->
                      Constraint(m.cons[c].name,
                                 SubstituteLinear(m.cons[c].coef, own, wgt),
                                 m.cons[c].op, m.cons[c].rhs)]]

\* the encoding record an encode leaves in the converter
EncodingRecord(src, coefs, dst) == [src |-> src, coefs |-> coefs, dst |-> dst]

\* each original variable is the weighted sum of its replacement binaries
DecodeValues(rec, x) ==
    LET own == Owners(rec.coefs)
        wgt == Weights(rec.coefs)
    IN  [i \in 1..NumVars(rec.src) |->
            Sum([p \in 1..Len(own) |-> IF own[p] = i THEN wgt[p] * x[p] ELSE 0])]

\* a decode that hands on the objective value of the encoded model
DecodePropagated(rec, x) ==
    [x |-> DecodeValues(rec, x), fval |-> Objective(rec.dst, x)]

\* the decoded assignment and the original objective evaluated at it
Decode(rec, x) ==
    [x |-> DecodeValues(rec, x), fval |-> Objective(rec.src, DecodeValues(rec, x))]

(***************************************************************************)
(* PenalizeLinearEqualityConstraints (specification 4.3).                  *)
(***************************************************************************)
\* a check that lets every list of constraints through
AnyConstraints(m) == Len(m.cons) >= 0

\* "An input to the convert has to be a QuadraticProgram with only equality
\* constraints"
AllEqualities(m) == \A i \in 1..Len(m.cons) : m.cons[i].op = "E"

\* subtract the penalty when maximizing, add it when minimizing
PenaltySign(m) == IF m.sense = "max" THEN 0 - 1 ELSE 1

\* objective + sign * sum_c M * (b_c - sum_i a_ci x_i)^2, expanded
PenalizeEncode(m, M) ==
    LET n == NumVars(m)
        s == PenaltySign(m)
        C == 1..Len(m.cons)
    IN  [vars  |-> m.vars,
         sense |-> m.sense,
         lin   |-> [i \in 1..n |->
                      m.lin[i] - s * 2 * M *
                        Sum([c \in C |-> m.cons[c].rhs * m.cons[c].coef[i]])],
         quad  |-> [i \in 1..n |-> [j \in 1..n |->
                      IF i > j THEN 0
                      ELSE m.quad[i][j] + s * (IF i = j THEN 2 ELSE 4) * M *
                             Sum([c \in C |-> m.cons[c].coef[i] * m.cons[c].coef[j]])]],
         const |-> m.const + s * M *
                     Sum([c \in C |-> m.cons[c].rhs * m.cons[c].rhs]),
         cons  |-> <<>>]

(***************************************************************************)
(* OptimizationProblemToQubo (specification 4.4).                          *)
(***************************************************************************)
QuboEncode(m, M) == PenalizeEncode(IntegerToBinaryEncode(m), M)

(***************************************************************************)
(* The models a session starts from: the toy model of the notebook and a   *)
(* bounded family built through the same calls (variables.add,             *)
(* objective.set_linear, linear_constraints.add, objective.set_sense).     *)
(***************************************************************************)
VariableChoices == {<<"B", 1>>} \cup {<<"I", U>> : U \in 1..MaxU}

\* the kinds and upper bounds of the two variables u, v
VariablePairs ==
    {<<k, <<"B", 1>>>> : k \in VariableChoices} \cup {<<<<"B", 1>>, <<"I", 2>>>>}

\* sense and linear objective
ObjectiveChoices == {<<"max", <<2, 1>>>>, <<"min", <<1, 0 - 1>>>>}

FirstConstraints ==
    {Constraint("c1", <<1, 2>>, o, b) : o \in {"L", "E", "G"}, b \in 1..MaxRhs}

\* an optional second constraint, on the models with a binary u
SecondConstraints(k) ==
    {<<>>} \cup IF k[1][1] = "B"
                THEN {<<Constraint("c2", <<1, 0 - 1>>, "G", 0)>>}
                ELSE {}

FamilyModels ==
    {LinearModel(<<Variable("u", m[1][1][1], 0, m[1][1][2]),
                   Variable("v", m[1][2][1], 0, m[1][2][2])>>,
                 m[2][1], m[2][2], <<m[3]>> \o m[4]) :
        m \in UNION {{<<k, o, c1, c2>> : c2 \in SecondConstraints(k)} :
                        <<k, o, c1>> \in VariablePairs \X ObjectiveChoices
                                         \X FirstConstraints}}

BuildCells == <<Cell4Model, Cell10Model, Cell16Model, Cell28Model>>

PenaltyFactors == {SmallPenalty, DefaultPenalty}

Result(m, x) == [x |-> x, fval |-> Objective(m, x)]

FeasibleAssignments(m) == {x \in Assignments(m) : Feasible(m, x)}

\* a solver that stops at any feasible assignment
OptimalAssignmentsAnyFeasible(m) == FeasibleAssignments(m)

\* the answers an exact solver may return: the feasible assignments no
\* other feasible assignment beats
OptimalAssignments(m) ==
    LET F == FeasibleAssignments(m)
        V == {Objective(m, x) : x \in F}
        best == IF m.sense = "max" THEN SetMax(V) ELSE SetMin(V)
    IN  {x \in F : Objective(m, x) = best}

(***************************************************************************)
(* The session.  Every converter cell instantiates its converter and calls *)
(* encode(op).  In the sessions explored every converter cell is run at    *)
(* most once, as in the notebook's recorded run, InequalityToEquality      *)
(* before the others and OptimizationProblemToQubo after them;             *)
(* an answer is asked for right after a conversion and then decoded; the   *)
(* notebook's session goes on after an answer of the exact solver by       *)
(* rebuilding op, while an answer drawn from all assignments (Candidate)   *)
(* is decoded once and ends the session.                                   *)
(***************************************************************************)
\* a converter instance that holds nothing from an encode
Fresh == [fresh |-> TRUE]

Unused(conv) == conv = None \/ conv = Fresh

HasRecord(conv) == "src" \in DOMAIN conv

EncodeCalls ==
    {"ineq2eq_encode", "int2bin_encode", "penalize_encode", "qubo_encode"}

DecodeCalls == {"int2bin_decode", "qubo_decode"}

\* "from qiskit.optimization import OptimizationProblem"
\* "from cplex import SparsePair"
CommonImports == {"OptimizationProblem", "SparsePair"}

\* a document whose int2bin_conv.decode cell is there twice
DocumentCallsDecodeTwice ==
    <<"build", "ineq2eq_encode", "build", "int2bin_encode", "build",
      "penalize_encode", "solve", "int2bin_decode", "int2bin_decode", "build",
      "qubo_encode", "solve", "qubo_decode", "import">>

\* the statements of the code cells in the order of the document; the
\* import cell is the last cell
DocumentCalls ==
    <<"build", "ineq2eq_encode", "build", "int2bin_encode", "build",
      "penalize_encode", "solve", "int2bin_decode", "build", "qubo_encode",
      "solve", "qubo_decode", "import">>

\* the call is the one to run now: any in a session that runs cells one at
\* a time, the next of the document in a run from top to bottom
Turn(call) ==
    \/ cell = 0
    \/ cell \in 1..Len(DocumentCalls) /\ DocumentCalls[cell] = call

\* the names the statement of a call reads are bound
NamesBound(call) ==
    CASE call = "build" -> CommonImports \subseteq names
      [] call \in EncodeCalls -> op # None
      [] call = "solve" -> new_op # None
      [] call = "int2bin_decode" -> int2bin_conv # None /\ result # None
      [] call = "qubo_decode" -> qubo_conv # None /\ result # None
      [] call = "import" -> TRUE

\* a statement has run: the run from top to bottom moves on, and a decode
\* call is counted on its instance
Advance(call) ==
    /\ cell' = IF cell = 0 THEN 0 ELSE cell + 1
    /\ decodes' = IF call \in DecodeCalls
                  THEN [decodes EXCEPT ![call] = @ + 1]
                  ELSE decodes
    /\ names' = IF call = "import" THEN CommonImports ELSE names

\* a session that runs cells one at a time, after the import cell and the
\* first build cell (or the build of another model)
InitSession ==
    /\ op \in FamilyModels \cup {Cell4Model}
    /\ names = CommonImports
    /\ cell = 0
    /\ last = "build"

\* a run of the document from top to bottom, in a new kernel or in the
\* kernel of the recorded session, where the import cell has run first
\* (execution_count 1)
InitRun ==
    /\ op = None
    /\ names \in {{}, CommonImports}
    /\ cell = 1
    /\ last = "start"

Init ==
    /\ InitSession \/ InitRun
    /\ decodes = [c \in DecodeCalls |-> 0]
    /\ new_op = None
    /\ result = None
    /\ ineq2eq_conv = None
    /\ int2bin_conv = None
    /\ penilize_conv = None
    /\ qubo_conv = None
    /\ decoded_from = NoVector
    /\ phase = "convert"
    /\ error = NoError

\* a call that raises leaves the models and the result as they were
Raise(call, e) ==
    /\ last' = call
    /\ error' = e
    /\ decoded_from' = NoVector
    /\ Advance(call)
    /\ UNCHANGED <<op, new_op, result, phase>>

\* a call that returns
Return(call) ==
    /\ last' = call
    /\ error' = NoError
    /\ Advance(call)

\* op = OptimizationProblem(); op.variables.add(...); ...
\* the build cells of the notebook are run in the order of the document
Build ==
    /\ Turn("build") /\ NamesBound("build")
    /\ phase \in {"convert", "solved"}
    /\ \/ op = None /\ op' = BuildCells[1]
       \/ \E i \in 1..(Len(BuildCells) - 1) :
             op = BuildCells[i] /\ op' = BuildCells[i + 1]
    /\ phase' = "convert"
    /\ Return("build")
    /\ decoded_from' = NoVector
    /\ UNCHANGED <<new_op, result, ineq2eq_conv, int2bin_conv,
                   penilize_conv, qubo_conv>>

\* "The following example is also the output of the above example":
\* the output of one converter is the input of the next
Feed ==
    /\ cell = 0
    /\ phase = "convert"
    /\ last \in EncodeCalls
    /\ error = NoError
    /\ new_op # op
    /\ op' = new_op
    /\ Return("feed")
    /\ decoded_from' = NoVector
    /\ UNCHANGED <<new_op, result, phase, ineq2eq_conv, int2bin_conv,
                   penilize_conv, qubo_conv>>

\* ineq2eq_conv = InequalityToEqualityConverter()
\* new_op = ineq2eq_conv.encode(op)
Ineq2EqEncode ==
    /\ Turn("ineq2eq_encode") /\ NamesBound("ineq2eq_encode")
    /\ phase = "convert"
    /\ ineq2eq_conv = None
    /\ Unused(int2bin_conv) /\ Unused(penilize_conv) /\ Unused(qubo_conv)
    /\ IF Ineq2EqInvalidBounds(op)
       THEN /\ Raise("ineq2eq_encode", "InvalidBoundsError")
            /\ ineq2eq_conv' = Fresh
       ELSE /\ new_op' = IF op = Cell4Model THEN Cell6Output
                         ELSE InequalityToEqualityEncode(op)
            /\ ineq2eq_conv' = [encoded |-> TRUE]
            /\ Return("ineq2eq_encode")
            /\ decoded_from' = NoVector
            /\ UNCHANGED <<op, result, phase>>
    /\ UNCHANGED <<int2bin_conv, penilize_conv, qubo_conv>>

\* int2bin_conv = IntegerToBinaryConverter()
\* new_op = int2bin_conv.encode(op)
Int2BinEncode ==
    /\ Turn("int2bin_encode") /\ NamesBound("int2bin_encode")
    /\ phase = "convert"
    /\ int2bin_conv = None
    /\ Unused(qubo_conv)
    /\ IF Int2BinInvalidBounds(op)
       THEN /\ Raise("int2bin_encode", "InvalidBoundsError")
            /\ int2bin_conv' = Fresh
       ELSE /\ new_op' = IF op = Cell10Model THEN Cell12Output
                         ELSE IntegerToBinaryEncode(op)
            /\ int2bin_conv' =
                 EncodingRecord(op,
                                IF op = Cell10Model THEN Cell12Coefficients
                                ELSE Coefficients(op),
                                new_op')
            /\ Return("int2bin_encode")
            /\ decoded_from' = NoVector
            /\ UNCHANGED <<op, result, phase>>
    /\ UNCHANGED <<ineq2eq_conv, penilize_conv, qubo_conv>>

\* penilize_conv = PenalizeLinearEqualityConstraints()
\* new_op = penilize_conv.encode(op)
Penalize ==
    /\ Turn("penalize_encode") /\ NamesBound("penalize_encode")
    /\ phase = "convert"
    /\ penilize_conv = None
    /\ Unused(qubo_conv)
    /\ IF ~AllEqualities(op)
       THEN /\ Raise("penalize_encode", "UnsupportedConstraintError")
            /\ penilize_conv' = Fresh
       ELSE \E M \in PenaltyFactors :
            /\ new_op' = IF op = Cell16Model /\ M = DefaultPenalty
                         THEN Cell18Output
                         ELSE PenalizeEncode(op, M)
            /\ penilize_conv' = [penalty |-> M]
            /\ Return("penalize_encode")
            /\ decoded_from' = NoVector
            /\ UNCHANGED <<op, result, phase>>
    /\ UNCHANGED <<ineq2eq_conv, int2bin_conv, qubo_conv>>

\* qubo_conv = OptimizationProblemToQubo()
\* new_op = qubo_conv.encode(op)
QuboEncodeCall ==
    /\ Turn("qubo_encode") /\ NamesBound("qubo_encode")
    /\ phase = "convert"
    /\ qubo_conv = None
    /\ Unused(penilize_conv) \/ last = "build"
    /\ IF Int2BinInvalidBounds(op)
       THEN /\ Raise("qubo_encode", "InvalidBoundsError")
            /\ qubo_conv' = Fresh
       ELSE IF ~AllEqualities(op)
       THEN /\ Raise("qubo_encode", "UnsupportedConstraintError")
            /\ qubo_conv' = Fresh
       ELSE /\ new_op' = IF op = Cell28Model THEN Cell30Output
                         ELSE QuboEncode(op, DefaultPenalty)
            /\ qubo_conv' = EncodingRecord(op, Coefficients(op), new_op')
            /\ Return("qubo_encode")
            /\ decoded_from' = NoVector
            /\ UNCHANGED <<op, result, phase>>
    /\ UNCHANGED <<ineq2eq_conv, int2bin_conv, penilize_conv>>

\* result = cplex.solve(new_op)
Solve ==
    /\ Turn("solve") /\ NamesBound("solve")
    /\ last \in EncodeCalls
    /\ FeasibleAssignments(new_op) # {}
    /\ \E x \in OptimalAssignments(new_op) : result' = Result(new_op, x)
    /\ phase' = "solved"
    /\ Return("solve")
    /\ decoded_from' = NoVector
    /\ UNCHANGED <<op, new_op, ineq2eq_conv, int2bin_conv, penilize_conv,
                   qubo_conv>>

\* a result from any other source (a sampler, a heuristic): every assignment
\* of the converted problem may be handed to decode
Candidate ==
    /\ cell = 0
    /\ last \in {"int2bin_encode", "qubo_encode"}
    /\ error = NoError
    /\ result = None
    /\ \E x \in Assignments(new_op) : result' = Result(new_op, x)
    /\ phase' = "sampled"
    /\ Return("candidate")
    /\ decoded_from' = NoVector
    /\ UNCHANGED <<op, new_op, ineq2eq_conv, int2bin_conv, penilize_conv,
                   qubo_conv>>

\* a decode that returns None for a vector of the wrong length
DecodeCallReturnsNone(call, rec, src, printed) ==
    /\ Turn(call) /\ NamesBound(call)
    /\ HasRecord(rec)
    /\ decodes[call] < MaxDecodes
    /\ phase # "decoded"
    /\ IF Len(result.x) # NumVars(rec.dst)
       THEN /\ result' = None
            /\ decoded_from' = NoVector
            /\ Return(call)
            /\ UNCHANGED <<op, new_op, phase>>
       ELSE /\ result' = IF rec.src = src /\ phase = "solved"
                              /\ DecodeValues(rec, result.x) = printed.x
                         THEN printed
                         ELSE Decode(rec, result.x)
            /\ decoded_from' = result.x
            /\ phase' = IF phase = "sampled" THEN "decoded" ELSE phase
            /\ Return(call)
            /\ UNCHANGED <<op, new_op>>
    /\ UNCHANGED <<ineq2eq_conv, int2bin_conv, penilize_conv, qubo_conv>>

\* conv.decode(result) for a converter holding the encoding record rec
\* (printed is what the notebook printed for the answer of its own run)
DecodeCall(call, rec, src, printed) ==
    /\ Turn(call) /\ NamesBound(call)
    /\ HasRecord(rec)
    /\ decodes[call] < MaxDecodes
    /\ phase # "decoded"
    /\ IF Len(result.x) # NumVars(rec.dst)
       THEN Raise(call, "DecodeMismatchError")
       ELSE /\ result' = IF rec.src = src /\ phase = "solved"
                              /\ DecodeValues(rec, result.x) = printed.x
                         THEN printed
                         ELSE Decode(rec, result.x)
            /\ decoded_from' = result.x
            /\ phase' = IF phase = "sampled" THEN "decoded" ELSE phase
            /\ Return(call)
            /\ UNCHANGED <<op, new_op>>
    /\ UNCHANGED <<ineq2eq_conv, int2bin_conv, penilize_conv, qubo_conv>>

\* result = int2bin_conv.decode(result)
Int2BinDecode ==
    DecodeCall("int2bin_decode", int2bin_conv, Cell10Model, Cell24Output)

\* result = qubo_conv.decode(result)
QuboDecode ==
    DecodeCall("qubo_decode", qubo_conv, Cell28Model, Cell32Output)

\* from qiskit.optimization import OptimizationProblem
\* from cplex import SparsePair
\* (the last cell of the document)
Import ==
    /\ cell = Len(DocumentCalls)
    /\ Turn("import")
    /\ Return("import")
    /\ decoded_from' = NoVector
    /\ UNCHANGED <<op, new_op, result, phase, ineq2eq_conv, int2bin_conv,
                   penilize_conv, qubo_conv>>

\* the instance a cell binds before its statement fails on another name
BoundBefore(conv, call, failed) ==
    IF failed = call /\ conv = None THEN Fresh ELSE conv

\* a cell of the run that reads a name no cell has bound: NameError; no
\* call is made, and the run goes on with the next cell
NameErrorCell ==
    /\ cell \in 1..Len(DocumentCalls)
    /\ ~NamesBound(DocumentCalls[cell])
    /\ error' = "NameError"
    /\ cell' = cell + 1
    /\ ineq2eq_conv' =
         BoundBefore(ineq2eq_conv, "ineq2eq_encode", DocumentCalls[cell])
    /\ int2bin_conv' =
         BoundBefore(int2bin_conv, "int2bin_encode", DocumentCalls[cell])
    /\ penilize_conv' =
         BoundBefore(penilize_conv, "penalize_encode", DocumentCalls[cell])
    /\ qubo_conv' =
         BoundBefore(qubo_conv, "qubo_encode", DocumentCalls[cell])
    /\ UNCHANGED <<op, new_op, result, decoded_from, phase, last, names,
                   decodes>>

Next ==
    \/ Build
    \/ Feed
    \/ Ineq2EqEncode
    \/ Int2BinEncode
    \/ Penalize
    \/ QuboEncodeCall
    \/ Solve
    \/ Candidate
    \/ Int2BinDecode
    \/ QuboDecode
    \/ Import
    \/ NameErrorCell

Spec == Init /\ [][Next]_vars

TypeOK ==
    /\ error \in {NoError, "InvalidBoundsError", "UnsupportedConstraintError",
                  "DecodeMismatchError", "NameError"}
    /\ cell \in 0..(Len(DocumentCalls) + 1)
    /\ names \subseteq CommonImports
    /\ \A c \in DecodeCalls : decodes[c] \in 0..MaxDecodes

(***************************************************************************)
(* Properties.                                                             *)
(***************************************************************************)
Records == {c \in {int2bin_conv, qubo_conv} : HasRecord(c)}

IsInteger(v) == v.kind = "I"

\* the sums of all subsets of a coefficient list
SubsetSums(c) == {Dot(c, b) : b \in [1..Len(c) -> {0, 1}]}

\* C1: for every integer variable with bounds [0, U], U >= 1, an encode has
\* replaced, the stored coefficient list has k = ceil(log2(U+1)) entries
\* 1, 2, 4, ..., 2^(k-2), U+1-2^(k-1), and the sums over its subsets are
\* exactly 0..U: every value is reached and none exceeds U (U = 7 gives
\* 1, 2, 4 and U = 5 gives 1, 2, 2 in the notebook).
C1_SubsetSumsCoverRange ==
    \A rec \in Records : \A i \in 1..NumVars(rec.src) :
        LET U == rec.src.vars[i].ub
            c == rec.coefs[i]
            k == CeilLog2(U + 1)
        IN  (IsInteger(rec.src.vars[i]) /\ U >= 1) =>
                /\ Len(c) = k
                /\ \A j \in 1..(k - 1) : c[j] = Pow2(j - 1)
                /\ c[k] = U + 1 - Pow2(k - 1)
                /\ SubsetSums(c) = 0..U
                /\ (U = 7 => c = <<1, 2, 4>>)
                /\ (U = 5 => c = <<1, 2, 2>>)

\* int2bin_conv.encode has replaced z (U = 7) and xyz@int_slack (U = 5)
C1_Witness ==
    /\ last = "int2bin_encode"
    /\ error = NoError
    /\ int2bin_conv.src = Cell10Model
    /\ int2bin_conv.coefs[3] = <<1, 2, 4>>
    /\ int2bin_conv.coefs[4] = <<1, 2, 2>>

\* the position before the first replacement of original variable i
Offset(coefs, i) == Sum([j \in 1..(i - 1) |-> Len(coefs[j])])

\* the weighted sum of the replacement binaries of original variable i
WeightedSum(coefs, i, x) ==
    Sum([b \in 1..Len(coefs[i]) |-> coefs[i][b] * x[Offset(coefs, i) + b]])

\* C2: round trip of IntegerToBinary.  When int2bin_conv.decode returns for
\* an encoded model whose source has only equality constraints, and the
\* 0/1 assignment it was given satisfies the encoded constraints, then each
\* original variable equals the weighted sum of its replacement binaries,
\* lies within its declared bounds, every original constraint holds, and
\* the original objective there (which is the returned fval) equals the
\* encoded model's objective at the given assignment.
C2_RoundTrip ==
    (/\ last = "int2bin_decode"
     /\ error = NoError
     /\ AllEqualities(int2bin_conv.src)
     /\ decoded_from \in Assignments(int2bin_conv.dst)
     /\ Feasible(int2bin_conv.dst, decoded_from)) =>
        LET src == int2bin_conv.src
            y == result.x
        IN  /\ Len(y) = NumVars(src)
            /\ \A i \in 1..NumVars(src) :
                  /\ y[i] = WeightedSum(int2bin_conv.coefs, i, decoded_from)
                  /\ src.vars[i].lb <= y[i]
                  /\ y[i] <= src.vars[i].ub
            /\ Feasible(src, y)
            /\ result.fval = Objective(src, y)
            /\ Objective(src, y) = Objective(int2bin_conv.dst, decoded_from)

\* the notebook's decode of the solver's answer: ([1,1,3,0] / 6.0)
C2_Witness ==
    /\ last = "int2bin_decode"
    /\ error = NoError
    /\ int2bin_conv.src = Cell10Model
    /\ Feasible(int2bin_conv.dst, decoded_from)
    /\ decoded_from = <<1, 1, 1, 1, 0, 0, 0, 0>>
    /\ result = [x |-> <<1, 1, 3, 0>>, fval |-> 6]

\* the values of the objective of m over a set of assignments
Values(m, X) == {Objective(m, x) : x \in X}

\* maximum minus minimum of the objective over all assignments
Spread(m) ==
    SetMax(Values(m, Assignments(m))) - SetMin(Values(m, Assignments(m)))

\* C3: penalization dominance.  When penilize_conv.encode has returned with
\* a penalty factor M greater than the spread of the original objective
\* over all assignments, every assignment violating an original equality
\* constraint has a strictly worse penalized objective (lower under
\* maximize, higher under minimize) than every assignment satisfying all of
\* them; the default M = 1e5 exceeds the spread of the tutorial's 8-binary
\* model.
C3_PenaltyDominates ==
    (last = "penalize_encode" /\ error = NoError) =>
        /\ (op = Cell16Model) => DefaultPenalty > Spread(op)
        /\ (penilize_conv.penalty > Spread(op)) =>
              LET good == Values(new_op, FeasibleAssignments(op))
                  bad == Values(new_op,
                                Assignments(op) \ FeasibleAssignments(op))
              IN  \A b \in bad : \A g \in good : Better(op.sense, g, b)

\* the tutorial's model penalized with the default factor; assignments of
\* both kinds exist
C3_Witness ==
    /\ last = "penalize_encode"
    /\ error = NoError
    /\ op = Cell16Model
    /\ penilize_conv.penalty = DefaultPenalty
    /\ penilize_conv.penalty > Spread(op)
    /\ FeasibleAssignments(op) # {}
    /\ FeasibleAssignments(op) # Assignments(op)

\* sum over the constraints of M * (b - sum(a_i x_i))^2
PenaltyAt(m, M, x) ==
    Sum([c \in 1..Len(m.cons) |->
           M * (m.cons[c].rhs - Dot(m.cons[c].coef, x))
             * (m.cons[c].rhs - Dot(m.cons[c].coef, x))])

\* C4: when penilize_conv.encode returns (all constraints of op are
\* equalities), new_op has no constraints and the variables of op, and at
\* every assignment its objective is the objective of op minus (maximize)
\* or plus (minimize) the sum over the constraints of M*(b - sum a_i x_i)^2;
\* for the tutorial model and M = 1e5 it is the printed objective: linear
\* part 1000002 x + 1000001 y + 1000001 z@0 + 2000002 z@1 + 4000004 z@2 +
\* 1000000 s@0 + 2000000 s@1 + 2000000 s@2, the printed bracket halved,
\* constant -2500000.
C4_PenalizedObjective ==
    (last = "penalize_encode" /\ error = NoError) =>
        LET M == penilize_conv.penalty
        IN  /\ AllEqualities(op)
            /\ Len(new_op.cons) = 0
            /\ new_op.vars = op.vars
            /\ new_op.sense = op.sense
            /\ \A x \in Assignments(op) :
                  Objective(new_op, x) =
                    IF op.sense = "max"
                    THEN Objective(op, x) - PenaltyAt(op, M, x)
                    ELSE Objective(op, x) + PenaltyAt(op, M, x)
            /\ (op = Cell16Model /\ M = DefaultPenalty) =>
                  /\ new_op.lin = <<1000002, 1000001, 1000001, 2000002,
                                    4000004, 1000000, 2000000, 2000000>>
                  /\ new_op.quad = PrintedQuadratic
                  /\ new_op.const = 0 - 2500000

C4_Witness ==
    /\ last = "penalize_encode"
    /\ error = NoError
    /\ op = Cell16Model
    /\ penilize_conv.penalty = DefaultPenalty
    /\ new_op = Cell18Output
    /\ Objective(new_op, <<1, 1, 1, 1, 0, 0, 0, 0>>) = 6
    /\ Objective(new_op, <<0, 0, 0, 0, 0, 0, 0, 0>>) = 0 - 2500000

C6_OneSlackPerInequality ==
    (last = "ineq2eq_encode" /\ error = NoError) =>
        /\ \A c \in 1..Len(new_op.cons) : new_op.cons[c].op = "E"
        /\ Len(new_op.cons) = Len(op.cons)
        /\ NumVars(new_op) =
             NumVars(op) + Cardinality({c \in 1..Len(op.cons) :
                                          op.cons[c].op # "E"})

\* the toy model: one inequality, one slack variable
C6_Witness ==
    /\ last = "ineq2eq_encode"
    /\ error = NoError
    /\ op = Cell4Model
    /\ NumVars(op) = 3
    /\ NumVars(new_op) = 4
    /\ new_op.cons[1].op = "E"

\* C7: in the toy model (maximize 2x+y+z, x+y+z <= 5, x, y binary, z in
\* 0..7) the assignment x=1, y=1, z=3 is feasible with objective 6 and no
\* feasible assignment has an objective greater than 6.
C7_ToyOptimum ==
    (op = Cell4Model) =>
        /\ <<1, 1, 3>> \in Assignments(op)
        /\ Feasible(op, <<1, 1, 3>>)
        /\ Objective(op, <<1, 1, 3>>) = 6
        /\ \A x \in FeasibleAssignments(op) : Objective(op, x) <= 6

\* the toy model, converted to equalities and solved exactly
C7_Witness ==
    /\ op = Cell4Model
    /\ last = "solve"
    /\ new_op = Cell6Output
    /\ result.fval = 6

\* C8: the maximum of the tutorial's penalized objective over all 2^8
\* binary assignments is 6, and the decode of every assignment attaining it
\* is (x, y, z, slack) with x+y+z+slack = 5, x+y+z <= 5 and 2x+y+z = 6.
C8_ConvertedAnswerIsOriginal ==
    /\ (last = "solve" /\ new_op = Cell18Output) =>
          /\ Cardinality(Assignments(new_op)) = 256
          /\ SetMax(Values(new_op, Assignments(new_op))) = 6
          /\ result.fval = 6
    /\ (/\ last = "int2bin_decode"
        /\ error = NoError
        /\ phase = "solved"
        /\ new_op = Cell18Output
        /\ int2bin_conv.src = Cell10Model) =>
          LET x == result.x[1]
              y == result.x[2]
              z == result.x[3]
              slack == result.x[4]
          IN  /\ Objective(new_op, decoded_from) = 6
              /\ x + y + z + slack = 5
              /\ x + y + z <= 5
              /\ 2 * x + y + z = 6
              /\ result.fval = 6

\* the notebook's cells 18, 23 and 24: the solver found a maximizer with
\* z@2 = 1 and int2bin_conv decoded it
C8_Witness ==
    /\ last = "int2bin_decode"
    /\ error = NoError
    /\ phase = "solved"
    /\ new_op = Cell18Output
    /\ int2bin_conv.src = Cell10Model
    /\ decoded_from[5] = 1
    /\ result.fval = 6

\* the models bound to op and new_op
BoundModels == {m \in {op, new_op} : m # None}

\* C9: in every model built or returned by an encode, every binary
\* variable has lower bound 0 and upper bound 1, and every variable has
\* lower bound <= upper bound.
C9_BinaryBounds ==
    \A m \in BoundModels : \A i \in 1..NumVars(m) :
        /\ (m.vars[i].kind = "B") => (m.vars[i].lb = 0 /\ m.vars[i].ub = 1)
        /\ m.vars[i].lb <= m.vars[i].ub

HasInteger(m) == \E i \in 1..NumVars(m) : m.vars[i].kind = "I"

\* C10: idempotence.  When int2bin_conv.encode returns for an op without
\* integer variables, new_op equals op; the model it returns for any op is
\* left as it is by a second IntegerToBinary.encode; and when
\* ineq2eq_conv.encode returns for an op without inequality constraints,
\* new_op equals op.
C10_Idempotence ==
    /\ (last = "int2bin_encode" /\ error = NoError) =>
          /\ ~HasInteger(op) => new_op = op
          /\ ~HasInteger(new_op)
          /\ IntegerToBinaryEncode(new_op) = new_op
    /\ (last = "ineq2eq_encode" /\ error = NoError /\ AllEqualities(op)) =>
          new_op = op

\* a binary model with one equality constraint that ineq2eq_conv.encode and
\* then int2bin_conv.encode were given, each returning it as it is
C10_Witness ==
    /\ last = "int2bin_encode"
    /\ error = NoError
    /\ ineq2eq_conv = [encoded |-> TRUE]
    /\ op \in FamilyModels
    /\ AllEqualities(op)
    /\ ~HasInteger(op)
    /\ new_op = op

\* the converter whose decode returned last
DecodingRecord == IF last = "int2bin_decode" THEN int2bin_conv ELSE qubo_conv

\* C11: when a decode returns for a binary vector of the right length, each
\* original binary variable has the value of its own position in the
\* vector, each original integer variable is the weighted sum of its
\* replacement binaries under the stored coefficient list, and the reported
\* objective value is the objective of the original model at the decoded
\* assignment, also when the vector violates a penalized constraint and the
\* penalized objective there is another value.
C11_DecodeRecomputes ==
    (last \in {"int2bin_decode", "qubo_decode"} /\ error = NoError) =>
        LET rec == DecodingRecord
            src == rec.src
        IN  /\ Len(decoded_from) = NumVars(rec.dst)
            /\ Len(result.x) = NumVars(src)
            /\ \A i \in 1..NumVars(src) :
                  IF src.vars[i].kind = "B"
                  THEN result.x[i] = decoded_from[Offset(rec.coefs, i) + 1]
                  ELSE result.x[i] = WeightedSum(rec.coefs, i, decoded_from)
            /\ result.fval = Objective(src, result.x)

\* qubo_conv.decode of a vector that violates the penalized constraint: the
\* penalized objective at the vector is not the reported value
C11_Witness ==
    /\ last = "qubo_decode"
    /\ error = NoError
    /\ qubo_conv.src = Cell28Model
    /\ new_op = Cell30Output
    /\ decoded_from = <<1, 1, 1, 1, 1, 0, 0, 0>>
    /\ result = [x |-> <<1, 1, 7, 0>>, fval |-> 10]
    /\ Objective(new_op, decoded_from) = 10 - 16 * DefaultPenalty

HasInequality(m) == \E c \in 1..Len(m.cons) : m.cons[c].op \in {"L", "G"}

\* the step in which the cell of a converter runs: its name gets bound
EncodeStepOf(conv) ==
    conv = None /\ conv' # None /\ error' # "NameError"

\* a failed encode: the named error, no model returned, the input as it was
FailsUnsupported ==
    /\ error' = "UnsupportedConstraintError"
    /\ new_op' = new_op
    /\ op' = op
    /\ result' = result

\* an encode that returns a model with no constraints and leaves its input
ReturnsModel ==
    /\ error' = NoError
    /\ new_op' # None
    /\ Len(new_op'.cons) = 0
    /\ op' = op

\* C12: penilize_conv.encode, and qubo_conv.encode (of a model
\* IntegerToBinary accepts), applied to a model with a <= or >= constraint
\* fails with UnsupportedConstraintError, returns no model and leaves the
\* input model unchanged; applied to a model whose constraints are all
\* equalities it does not fail.
C12_UnsupportedConstraint ==
    [][/\ EncodeStepOf(penilize_conv) =>
            /\ last' = "penalize_encode"
            /\ IF HasInequality(op)
               THEN FailsUnsupported /\ penilize_conv' = Fresh
               ELSE ReturnsModel
       /\ (EncodeStepOf(qubo_conv) /\ ~Int2BinInvalidBounds(op)) =>
            /\ last' = "qubo_encode"
            /\ IF HasInequality(op)
               THEN FailsUnsupported /\ qubo_conv' = Fresh
               ELSE ReturnsModel]_vars

\* the toy model with x+y+z <= 5 was given to penilize_conv.encode and then
\* to qubo_conv.encode: both failed and new_op was never bound
C12_Witness ==
    /\ op = Cell4Model
    /\ HasInequality(op)
    /\ penilize_conv = Fresh
    /\ qubo_conv = Fresh
    /\ last = "qubo_encode"
    /\ error = "UnsupportedConstraintError"
    /\ new_op = None

\* what a decode step of the converter conv does with the vector in result
DecodeChecksLength(conv) ==
    /\ conv' = conv
    /\ IF Len(result.x) # NumVars(conv.dst)
       THEN /\ error' = "DecodeMismatchError"
            /\ result' = result
       ELSE /\ error' = NoError
            /\ Len(result'.x) = NumVars(conv.src)
            /\ (Len(result.x) = 8 /\ conv.src = Cell10Model) =>
                  Len(result'.x) = 4

\* C13: a decode given a vector whose length differs from the number of
\* variables of the encoded model its converter recorded fails with
\* DecodeMismatchError, produces no assignment (result stays as it was) and
\* leaves the encoding record unchanged; given a vector of exactly that
\* length (8 for the tutorial model) it returns one value per pre-encoding
\* variable (4 for the tutorial model).
C13_DecodeMismatch ==
    [][/\ (last' = "int2bin_decode") => DecodeChecksLength(int2bin_conv)
       /\ (last' = "qubo_decode") => DecodeChecksLength(qubo_conv)]_vars

\* the tutorial's answer was decoded (8 values in, 4 out) and the decoded
\* result was handed to int2bin_conv.decode once more
C13_Witness ==
    /\ last = "int2bin_decode"
    /\ error = "DecodeMismatchError"
    /\ int2bin_conv.src = Cell10Model
    /\ NumVars(int2bin_conv.dst) = 8
    /\ result = Cell24Output
    /\ Len(result.x) = 4

\* the converter instance a decode call is made on
InstanceOf(call) == IF call = "int2bin_decode" THEN int2bin_conv ELSE qubo_conv

StageInputBuilt ==
    /\ cell \in 1..Len(DocumentCalls)
    /\ DocumentCalls[cell] \in {"int2bin_encode", "penalize_encode"}
    /\ last = "build"
    /\ error = NoError
    /\ new_op # None

\* C15: in the tutorial pipeline the model built as the input of
\* IntegerToBinaryConverter equals the printed output of
\* InequalityToEqualityConverter.encode, and the model built as the input
\* of PenalizeLinearEqualityConstraints equals the printed output of
\* IntegerToBinaryConverter.encode, in variable names, kinds, bounds,
\* objective, sense and constraints.
C15_StageInputIsPreviousOutput ==
    StageInputBuilt => op = new_op

\* the greatest value of b - sum(a_i x_i) (for >=: of sum(a_i x_i) - b) over
\* the assignments of m that respect the variables' bounds
GreatestSlack(m, c) ==
    SetMax({IF c.op = "L" THEN c.rhs - Dot(c.coef, x)
                          ELSE Dot(c.coef, x) - c.rhs : x \in Assignments(m)})

\* x extended by the value v at position p and 0 at the other new positions
WithSlack(x, len, p, v) ==
    [i \in 1..len |-> IF i <= Len(x) THEN x[i] ELSE IF i = p THEN v ELSE 0]

\* C16: when ineq2eq_conv.encode returns, the slack variable added for an
\* inequality of op has lower bound 0 and upper bound the greatest value of
\* b - sum(a_i x_i) (for >=: sum(a_i x_i) - b) over the variables' bounds
\* (5 for x + y + z <= 5), and coefficient +1 for <= and -1 for >=, so that
\* an in-bounds assignment of op satisfies the inequality iff some slack
\* value within its bounds satisfies the equality of new_op.
C16_SlackBoundsAndSign ==
    (last = "ineq2eq_encode" /\ error = NoError) =>
        \A i \in 1..Len(op.cons) :
            (op.cons[i].op # "E") =>
                LET p == NumVars(op) +
                         Cardinality({j \in 1..i : op.cons[j].op # "E"})
                    s == new_op.vars[p]
                    e == new_op.cons[i]
                IN  /\ s.lb = 0
                    /\ s.ub = GreatestSlack(op, op.cons[i])
                    /\ (op = Cell4Model) => s.ub = 5
                    /\ e.coef[p] = IF op.cons[i].op = "L" THEN 1 ELSE 0 - 1
                    /\ \A x \in Assignments(op) :
                          ConstraintHolds(op.cons[i], x) <=>
                            \E v \in s.lb..s.ub :
                                ConstraintHolds(e,
                                    WithSlack(x, NumVars(new_op), p, v))

\* the toy model: x + y + z <= 5 becomes x + y + z + xyz@int_slack = 5 with
\* the slack in [0, 5]; the assignment (1, 1, 7) violates the inequality and
\* no slack value repairs it
C16_Witness ==
    /\ last = "ineq2eq_encode"
    /\ error = NoError
    /\ op = Cell4Model
    /\ new_op.vars[4] = Variable("xyz@int_slack", "I", 0, 5)
    /\ new_op.cons[1].coef[4] = 1
    /\ ~ConstraintHolds(op.cons[1], <<1, 1, 7>>)
    /\ \A v \in 0..5 : ~ConstraintHolds(new_op.cons[1], <<1, 1, 7, v>>)

\* the record that decodes an answer of the tutorial's QUBO new_op, through
\* IntegerToBinary + Penalize or through OptimizationProblemToQubo
TutorialRecords ==
    {rec \in Records :
        \/ rec = int2bin_conv /\ rec.src = Cell10Model /\ new_op = Cell18Output
        \/ rec = qubo_conv /\ rec.src = Cell28Model /\ new_op = Cell30Output}

\* a decode of the tutorial has returned the decoded answer of the solver
TutorialDecoded ==
    /\ last \in DecodeCalls
    /\ error = NoError
    /\ phase = "solved"
    /\ InstanceOf(last) \in TutorialRecords

\* C17 as stated: every binary assignment that maximizes the tutorial's QUBO
\* objective decodes to [x, y, z, xyz@int_slack] = [1, 1, 3, 0], so a
\* solve-then-decode run through either route returns that assignment.
C17_UniqueDecodedOptimum ==
    /\ (last = "solve") =>
          \A rec \in TutorialRecords :
              \A x \in OptimalAssignments(new_op) :
                  DecodeValues(rec, x) = <<1, 1, 3, 0>>
    /\ TutorialDecoded => result.x = <<1, 1, 3, 0>>

\* C17 as amended: the binary assignments that maximize the tutorial's QUBO
\* objective decode to [1, 1, 3, 0] or [1, 0, 4, 0] and to nothing else,
\* whichever of the two routes produced the QUBO, so every solve-then-decode
\* run returns one of these two assignments, with objective 6.
C17_DecodedOptima ==
    /\ (last = "solve") =>
          \A rec \in TutorialRecords :
              LET best == SetMax(Values(new_op, Assignments(new_op)))
              IN  {DecodeValues(rec, x) :
                     x \in {y \in Assignments(new_op) :
                              Objective(new_op, y) = best}}
                    = {<<1, 1, 3, 0>>, <<1, 0, 4, 0>>}
    /\ TutorialDecoded =>
          /\ result.x \in {<<1, 1, 3, 0>>, <<1, 0, 4, 0>>}
          /\ result.fval = 6

\* the run through OptimizationProblemToQubo in which the solver returned the
\* maximizer with z@2 = 1: qubo_conv.decode returns [1, 0, 4, 0]
C17_Witness ==
    /\ last = "qubo_decode"
    /\ error = NoError
    /\ phase = "solved"
    /\ qubo_conv.src = Cell28Model
    /\ new_op = Cell30Output
    /\ decoded_from = <<1, 0, 0, 0, 1, 0, 0, 0>>
    /\ result = [x |-> <<1, 0, 4, 0>>, fval |-> 6]

\* C18: when the code cells are executed once each from top to bottom in
\* document order, every cell references only names (OptimizationProblem,
\* SparsePair, the converter instances, op, new_op, result) bound by a cell
\* executed earlier, so no cell fails on an undefined name.
C18_NoUndefinedName ==
    (cell >= 1) => error # "NameError"

====
